---- MODULE Spec2Model ----
(***************************************************************************)
(* Model of src/app.py: the Wi-Fi fading monitor.                          *)
(*                                                                         *)
(* One Streamlit session is modelled.  Streamlit executes the script       *)
(* (main) from top to bottom on one thread; a widget interaction or        *)
(* st.rerun() starts the next execution.  The thread can be observed at    *)
(* its blocking points only:                                               *)
(*   pc = "idle"        the script ended, nothing is scheduled             *)
(*   pc = "sleep"       inside time.sleep (line 764), st.rerun() follows   *)
(*   pc = "rerun"       st.rerun() was raised by a button handler          *)
(*   pc = "auto_call"   blocked in the collaborator call of line 753       *)
(*   pc = "manual_call" blocked in the collaborator call of line 694       *)
(*   pc = "event_call"  blocked in the collaborator call of line 654       *)
(* Every action is the code executed between two blocking points.          *)
(*                                                                         *)
(* rssi values are kept in units of 1/Scale dBm, because the collector     *)
(* computes percent/2 - 100 and so yields half-dBm steps.  Python's        *)
(* Optional values are sequences of length <= 1 (<<>> is None).  The       *)
(* 'timestamp' column and the sleep interval (the slider) are not          *)
(* modelled: no decision of the code reads them.  Report texts are         *)
(* abstracted to their kind; the field req of a report is a ghost naming   *)
(* the request that produced it.                                           *)
(***************************************************************************)
EXTENDS Integers, Sequences, FiniteSets, TLC

VARIABLES data, monitoring, ultimo_relatorio, GROQ_API_KEY,
          pc, pending, nreq, wifi_info

vars == <<data, monitoring, ultimo_relatorio, GROQ_API_KEY,
          pc, pending, nreq, wifi_info>>

----------------------------------------------------------------------------
(* Bounds *)

MaxLen == 7
MaxReq == 2

(* Program constants *)

FAST_FADING_THRESHOLD == 10
MODERATE_VARIATION_THRESHOLD == 6
SLOW_FADING_THRESHOLD == 8
MULTIPATH_OSCILLATION_COUNT == 3
MULTIPATH_OSCILLATION_THRESHOLD == 5
Scale == 2
WindowSize == 5
ReportContext == 40
EventContext == 5

(* Inputs *)

(* What str(e) of the exception caught at line 255 can be. *)
FailureReasons == {"Connection error."}

(* What 'netsh wlan show interfaces' can print: the command fails, or its *)
(* output has or lacks the Signal, Channel and Radio type lines.          *)
NetshOutputs ==
    { [fails |-> TRUE,  signal |-> <<>>,    canal |-> <<>>,   radio |-> ""],
      [fails |-> FALSE, signal |-> <<>>,    canal |-> <<36>>, radio |-> "802.11n"],
      [fails |-> FALSE, signal |-> <<100>>, canal |-> <<>>,   radio |-> ""],
      [fails |-> FALSE, signal |-> <<88>>,  canal |-> <<36>>, radio |-> "802.11n"],
      [fails |-> FALSE, signal |-> <<80>>,  canal |-> <<6>>,  radio |-> "802.11ac"] }

----------------------------------------------------------------------------
(* Helpers *)

None == "None"

Abs(x) == IF x < 0 THEN -x ELSE x

Max(a, b) == IF a > b THEN a ELSE b

Min(a, b) == IF a < b THEN a ELSE b

TailN(s, n) == IF Len(s) <= n THEN s ELSE SubSeq(s, Len(s) - n + 1, Len(s))

RssiCol(df) == [i \in 1..Len(df) |-> df[i].rssi]

----------------------------------------------------------------------------
(* WiFiDataCollector.get_wifi_info *)

get_wifi_info(out) ==
    IF out.fails THEN <<>>
    ELSE LET rssi == IF out.signal # <<>> THEN <<out.signal[1] - 100 * Scale>> ELSE <<>>
             canal == out.canal
             frequencia ==
                 IF out.radio \in {"802.11a", "802.11ac", "802.11ax"} THEN "5 GHz"
                 ELSE IF canal # <<>> /\ canal[1] > 14 THEN "5 GHz"
                 ELSE "2.4 GHz"
         IN <<[rssi |-> rssi, canal |-> canal, frequencia |-> frequencia]>>

----------------------------------------------------------------------------
(* FadingDetector.detect_fading *)

InsufficientHistoryShort(historico) == Len(historico) < 3

InsufficientHistoryInclusive(historico) == Len(historico) < 4

(* lines 131-132 *)
InsufficientHistory(historico) == Len(historico) < 5

detect_fading_slow_first(novo_rssi, historico) ==
    IF InsufficientHistory(historico) THEN None
    ELSE LET ultimos_5 == TailN(RssiCol(historico), WindowSize)
             n == Len(ultimos_5)
             delta_atual == Abs(novo_rssi - ultimos_5[n])
             is_declining == \A i \in 1..(n - 1) : ultimos_5[i] >= ultimos_5[i + 1]
             queda_total == ultimos_5[1] - ultimos_5[n]
             oscilacoes == Cardinality({i \in 1..(n - 1) :
                 Abs(ultimos_5[i] - ultimos_5[i + 1]) >= Scale * MULTIPATH_OSCILLATION_THRESHOLD})
         IN IF n >= 5 /\ is_declining /\ queda_total >= Scale * SLOW_FADING_THRESHOLD
            THEN "Slow Fading / Shadowing"
            ELSE IF delta_atual >= Scale * FAST_FADING_THRESHOLD THEN "Fast Fading"
            ELSE IF oscilacoes >= MULTIPATH_OSCILLATION_COUNT THEN "Multipath Fading"
            ELSE IF delta_atual >= Scale * MODERATE_VARIATION_THRESHOLD THEN "Variacao Moderada"
            ELSE None

detect_fading_moderate_strict(novo_rssi, historico) ==
    IF InsufficientHistory(historico) THEN None
    ELSE LET ultimos_5 == TailN(RssiCol(historico), WindowSize)
             n == Len(ultimos_5)
             delta_atual == Abs(novo_rssi - ultimos_5[n])
             is_declining == \A i \in 1..(n - 1) : ultimos_5[i] >= ultimos_5[i + 1]
             queda_total == ultimos_5[1] - ultimos_5[n]
             oscilacoes == Cardinality({i \in 1..(n - 1) :
                 Abs(ultimos_5[i] - ultimos_5[i + 1]) >= Scale * MULTIPATH_OSCILLATION_THRESHOLD})
         IN IF delta_atual >= Scale * FAST_FADING_THRESHOLD THEN "Fast Fading"
            ELSE IF n >= 5 /\ is_declining /\ queda_total >= Scale * SLOW_FADING_THRESHOLD
                 THEN "Slow Fading / Shadowing"
            ELSE IF oscilacoes >= MULTIPATH_OSCILLATION_COUNT THEN "Multipath Fading"
            ELSE IF delta_atual > Scale * MODERATE_VARIATION_THRESHOLD THEN "Variacao Moderada"
            ELSE None

detect_fading(novo_rssi, historico) ==
    IF InsufficientHistory(historico) THEN None
    ELSE LET ultimos_5 == TailN(RssiCol(historico), WindowSize)
             n == Len(ultimos_5)
             delta_atual == Abs(novo_rssi - ultimos_5[n])
             is_declining == \A i \in 1..(n - 1) : ultimos_5[i] >= ultimos_5[i + 1]
             queda_total == ultimos_5[1] - ultimos_5[n]
             oscilacoes == Cardinality({i \in 1..(n - 1) :
                 Abs(ultimos_5[i] - ultimos_5[i + 1]) >= Scale * MULTIPATH_OSCILLATION_THRESHOLD})
         IN IF delta_atual >= Scale * FAST_FADING_THRESHOLD THEN "Fast Fading"
            ELSE IF n >= 5 /\ is_declining /\ queda_total >= Scale * SLOW_FADING_THRESHOLD
                 THEN "Slow Fading / Shadowing"
            ELSE IF oscilacoes >= MULTIPATH_OSCILLATION_COUNT THEN "Multipath Fading"
            ELSE IF delta_atual >= Scale * MODERATE_VARIATION_THRESHOLD THEN "Variacao Moderada"
            ELSE None

----------------------------------------------------------------------------
(* Reports and requests *)

NoReport == [text |-> "", req |-> 0, reason |-> ""]

ErroApiKey == [text |-> "Erro: API Key ausente.", req |-> 0, reason |-> "API Key ausente"]

Relatorio(r) == [text |-> "content", req |-> r.id, reason |-> ""]

ErroNaIA(r, e) == [text |-> "Erro na IA", req |-> r.id, reason |-> e]

Outcomes == {[ok |-> TRUE, reason |-> ""]} \cup {[ok |-> FALSE, reason |-> e] : e \in FailureReasons}

EventIndex(df) == {i \in 1..Len(df) : df[i].evento # None}

LastEvent(df) ==
    LET evs == EventIndex(df) \cap ((Len(df) - ReportContext + 1)..Len(df))
    IN IF evs = {} THEN None ELSE df[CHOOSE i \in evs : \A j \in evs : j <= i].evento

----------------------------------------------------------------------------
(* initialize_session_state *)

Init ==
    /\ data = <<>>
    /\ monitoring = FALSE
    /\ ultimo_relatorio = NoReport
    /\ GROQ_API_KEY \in BOOLEAN
    /\ pc = "idle"
    /\ pending = <<>>
    /\ nreq = 0
    /\ wifi_info = <<>>

(* The script thread is not inside a collaborator call: main runs every  *)
(* handler inline, so a new execution starts only when the previous one   *)
(* has ended (idle) or is about to be rerun (sleep, rerun).               *)
ScriptFreeAlways == TRUE

ScriptFree == pc \in {"idle", "sleep", "rerun"}

----------------------------------------------------------------------------
(* collect_and_process_data: the tail of every script execution that is   *)
(* not cut short by st.rerun().  rel is the value session_state holds for *)
(* ultimo_relatorio when the function is entered, pend the requests still *)
(* unanswered then, out the output of netsh.                              *)

MonitoringFlagStale == monitoring

(* line 718: the flag as render_sidebar left it in this execution. *)
MonitoringFlag == monitoring'

(* line 723 *)
HasReading(wi) == wi # <<>> /\ wi[1].rssi # <<>>

SkipTickHalts(rel, pend) ==
    /\ data' = data
    /\ ultimo_relatorio' = rel
    /\ pc' = "idle"
    /\ pending' = pend
    /\ nreq' = nreq

(* lines 723, 763-765: no usable reading; sleep and rerun. *)
SkipTick(rel, pend) ==
    /\ data' = data
    /\ ultimo_relatorio' = rel
    /\ pc' = "sleep"
    /\ pending' = pend
    /\ nreq' = nreq

ConcatFront(df, novo) == <<novo>> \o df

(* lines 740-744: pd.concat([data, novo_df], ignore_index=True). *)
Concat(df, novo) == Append(df, novo)

RequestContextWindow(df) == TailN(RssiCol(df), WindowSize)

(* line 751: data['rssi'].tail(40).tolist(), read after the append. *)
RequestContext(df) == TailN(RssiCol(df), ReportContext)

ShouldDispatchAlways(evento) == TRUE

(* line 747: 'if evento'. *)
ShouldDispatch(evento) == evento # None

(* lines 724-761: classify, append, dispatch. *)
ProcessReading(rel, pend, wi) ==
    LET evento == detect_fading(wi.rssi[1], data)
        novo == [rssi |-> wi.rssi[1], canal |-> wi.canal,
                 frequencia |-> wi.frequencia, evento |-> evento]
        df == Concat(data, novo)
    IN /\ Len(data) < MaxLen
       /\ data' = df
       /\ IF ShouldDispatch(evento)
          THEN IF GROQ_API_KEY
               THEN /\ nreq < MaxReq
                    /\ nreq' = nreq + 1
                    /\ pending' = Append(pend,
                           [id |-> nreq + 1, origin |-> "auto",
                            contexto_rssi |-> RequestContext(df),
                            evento |-> evento, canal |-> wi.canal,
                            frequencia |-> wi.frequencia])
                    /\ ultimo_relatorio' = rel
                    /\ pc' = "auto_call"
               ELSE /\ ultimo_relatorio' = ErroApiKey
                    /\ pc' = "sleep"
                    /\ pending' = pend
                    /\ nreq' = nreq
          ELSE /\ ultimo_relatorio' = rel
               /\ pc' = "sleep"
               /\ pending' = pend
               /\ nreq' = nreq

collect_and_process_data(rel, pend, out) ==
    IF MonitoringFlag
    THEN LET wi == get_wifi_info(out) IN
         /\ wifi_info' = <<wi>>
         /\ IF HasReading(wi) THEN ProcessReading(rel, pend, wi[1]) ELSE SkipTick(rel, pend)
    ELSE /\ wifi_info' = <<>>
         /\ data' = data
         /\ ultimo_relatorio' = rel
         /\ pc' = "idle"
         /\ pending' = pend
         /\ nreq' = nreq

----------------------------------------------------------------------------
(* Script executions *)

(* st.rerun() of line 765, or a rerun with no button pressed. *)
Rerun ==
    /\ pc \in {"sleep", "rerun"}
    /\ UNCHANGED <<monitoring, GROQ_API_KEY>>
    /\ \E out \in NetshOutputs : collect_and_process_data(ultimo_relatorio, pending, out)

(* render_sidebar, 'Iniciar / Pausar Monitoramento' pressed. *)
Toggle ==
    /\ ScriptFree
    /\ monitoring' = ~monitoring
    /\ UNCHANGED <<GROQ_API_KEY>>
    /\ \E out \in NetshOutputs : collect_and_process_data(ultimo_relatorio, pending, out)

LimparKeepsWindow ==
    /\ ScriptFree
    /\ data' = TailN(data, WindowSize)
    /\ ultimo_relatorio' = NoReport
    /\ pc' = "rerun"
    /\ wifi_info' = <<>>
    /\ UNCHANGED <<monitoring, GROQ_API_KEY, pending, nreq>>

(* render_sidebar, 'Limpar Todos os Dados' pressed: ends in st.rerun(). *)
Limpar ==
    /\ ScriptFree
    /\ data' = <<>>
    /\ ultimo_relatorio' = NoReport
    /\ pc' = "rerun"
    /\ wifi_info' = <<>>
    /\ UNCHANGED <<monitoring, GROQ_API_KEY, pending, nreq>>

(* render_ai_analysis, 'Relatorio' pressed: AIAnalyzer.analyze_fading up  *)
(* to the collaborator call; without a client it returns at once.         *)
RelatorioManual ==
    /\ ScriptFree
    /\ data # <<>>
    /\ wifi_info' = <<>>
    /\ IF GROQ_API_KEY
       THEN /\ nreq < MaxReq
            /\ nreq' = nreq + 1
            /\ pending' = Append(pending,
                   [id |-> nreq + 1, origin |-> "manual",
                    contexto_rssi |-> TailN(RssiCol(data), ReportContext),
                    evento |-> LastEvent(data), canal |-> data[Len(data)].canal,
                    frequencia |-> data[Len(data)].frequencia])
            /\ pc' = "manual_call"
            /\ ultimo_relatorio' = ultimo_relatorio
       ELSE /\ ultimo_relatorio' = ErroApiKey
            /\ pc' = "rerun"
            /\ UNCHANGED <<pending, nreq>>
    /\ UNCHANGED <<data, monitoring, GROQ_API_KEY>>

(* lines 246-256: what analyze_fading returns for request r. *)
analyze_fading(r, o) == IF o.ok THEN Relatorio(r) ELSE ErroNaIA(r, o.reason)

(* AIAnalyzer.analyze_fading returns in render_ai_analysis; st.rerun(). *)
RespondManual ==
    /\ pc = "manual_call"
    /\ \E o \in Outcomes : ultimo_relatorio' = analyze_fading(pending[1], o)
    /\ pending' = Tail(pending)
    /\ pc' = "rerun"
    /\ UNCHANGED <<data, monitoring, GROQ_API_KEY, nreq, wifi_info>>

(* AIAnalyzer.analyze_fading returns in collect_and_process_data. *)
RespondAuto ==
    /\ pc = "auto_call"
    /\ \E o \in Outcomes : ultimo_relatorio' = analyze_fading(pending[1], o)
    /\ pending' = Tail(pending)
    /\ pc' = "sleep"
    /\ UNCHANGED <<data, monitoring, GROQ_API_KEY, nreq, wifi_info>>

(* render_event_history, 'Analisar' pressed on the event of row idx:      *)
(* analyze_specific_event up to the collaborator call.  Without a client  *)
(* the call raises inside the try block and the script goes on.           *)
Analisar ==
    /\ ScriptFree
    /\ UNCHANGED <<monitoring, GROQ_API_KEY>>
    /\ \E idx \in EventIndex(data) :
          IF GROQ_API_KEY
          THEN /\ nreq < MaxReq
               /\ nreq' = nreq + 1
               /\ pending' = Append(pending,
                      [id |-> nreq + 1, origin |-> "event",
                       contexto_rssi |-> SubSeq(RssiCol(data), Max(1, idx - EventContext),
                                                Min(Len(data), idx + EventContext)),
                       evento |-> data[idx].evento, canal |-> data[idx].canal,
                       frequencia |-> data[idx].frequencia])
               /\ pc' = "event_call"
               /\ wifi_info' = <<>>
               /\ UNCHANGED <<data, ultimo_relatorio>>
          ELSE \E out \in NetshOutputs : collect_and_process_data(ultimo_relatorio, pending, out)

(* lines 659-669: the report is stored on success only. *)
EventResult(r, o) == IF o.ok THEN Relatorio(r) ELSE ultimo_relatorio

(* The collaborator call of analyze_specific_event returns or raises; the *)
(* script then runs to its end.                                           *)
RespondEvent ==
    /\ pc = "event_call"
    /\ UNCHANGED <<monitoring, GROQ_API_KEY>>
    /\ \E o \in Outcomes, out \in NetshOutputs :
          collect_and_process_data(EventResult(pending[1], o), Tail(pending), out)

Next ==
    \/ Rerun
    \/ Toggle
    \/ Limpar
    \/ RelatorioManual
    \/ RespondManual
    \/ RespondAuto
    \/ Analisar
    \/ RespondEvent

Spec == Init /\ [][Next]_vars

----------------------------------------------------------------------------
(* Vocabulary of the properties.  Rows of the log are numbered from 1:   *)
(* row i was classified against rows 1..i-1.                             *)

Dbm(x) == Scale * x

Delta(i) == Abs(data[i].rssi - data[i - 1].rssi)

(* The last five rssi values with row i included, oldest first. *)
WindowWith(i) == [k \in 1..WindowSize |-> data[i - WindowSize + k].rssi]

NonIncreasing(w) == \A k \in 1..(Len(w) - 1) : w[k] >= w[k + 1]

SlowCondition(w) ==
    NonIncreasing(w) /\ w[1] - w[Len(w)] >= Dbm(SLOW_FADING_THRESHOLD)

BigSteps(w) == Cardinality({k \in 1..(Len(w) - 1) :
                   Abs(w[k] - w[k + 1]) >= Dbm(MULTIPATH_OSCILLATION_THRESHOLD)})

AcquisitionFailed(wi) == wi # <<>> /\ (wi[1] = <<>> \/ wi[1][1].rssi = <<>>)

----------------------------------------------------------------------------
(* C1: a row classified against at least five earlier rows whose rssi    *)
(* differs from the previous row's by 10 dBm or more is Fast Fading,     *)
(* whatever the other rules say.                                         *)
C1_FastFadingFirst ==
    \A i \in 1..Len(data) :
        (i - 1 >= 5 /\ Delta(i) >= Dbm(FAST_FADING_THRESHOLD))
            => data[i].evento = "Fast Fading"

(* Two Fast Fading rows: one whose last five values, itself included,    *)
(* meet the Slow Fading condition, and one whose five predecessors do.   *)
C1_Witness ==
    \E i, j \in 6..Len(data) :
        /\ Delta(i) >= Dbm(FAST_FADING_THRESHOLD)
        /\ SlowCondition(WindowWith(i))
        /\ data[i].evento = "Fast Fading"
        /\ Delta(j) >= Dbm(FAST_FADING_THRESHOLD)
        /\ SlowCondition(WindowWith(j - 1))
        /\ data[j].evento = "Fast Fading"

(* C2: whenever the last five rssi values, current row included, never   *)
(* rise, drop by 8 dBm or more in total and the last step is below       *)
(* 10 dBm, the current row is Slow Fading.                               *)
C2_SlowFadingOnWindowWithCurrent ==
    \A i \in WindowSize..Len(data) :
        (SlowCondition(WindowWith(i)) /\ Delta(i) < Dbm(FAST_FADING_THRESHOLD))
            => data[i].evento = "Slow Fading / Shadowing"

(* C3: a row is Multipath Fading only if at least 3 of the 4 steps       *)
(* within the last five rssi values, current row included, are of 5 dBm  *)
(* or more.                                                              *)
C3_MultipathOnlyOnWindowWithCurrent ==
    \A i \in 1..Len(data) :
        data[i].evento = "Multipath Fading"
            => (i >= WindowSize /\ BigSteps(WindowWith(i)) >= MULTIPATH_OSCILLATION_COUNT)

(* C4: the first four rows of the log, at session start and after every  *)
(* reset, carry no category.                                             *)
C4_ColdStart ==
    \A i \in 1..Len(data) : i < 5 => data[i].evento = None

(* Four rows, the last two 10 dBm apart, all unlabeled. *)
C4_Witness ==
    /\ Len(data) = 4
    /\ Delta(4) >= Dbm(FAST_FADING_THRESHOLD)
    /\ Delta(3) >= Dbm(MODERATE_VARIATION_THRESHOLD)
    /\ data[4].evento = None

(* C5: the category of row i depends only on the rssi of rows i-4..i: a  *)
(* log that differs from this one in row i-5 alone gives row i the same  *)
(* category.                                                             *)
C5_Locality ==
    \A i \in 6..Len(data) :
        \A out \in NetshOutputs :
            HasReading(get_wifi_info(out)) =>
                LET x == get_wifi_info(out)[1].rssi[1]
                    other == [SubSeq(data, 1, i - 1) EXCEPT ![i - 5].rssi = x]
                IN detect_fading(data[i].rssi, other) = data[i].evento

(* C6: while the request of a tick is unanswered, a step that acquires   *)
(* and appends a further sample is possible.                             *)
C6_DispatchDoesNotBlock ==
    (/\ pending # <<>>
     /\ pending[Len(pending)].origin = "auto"
     /\ Len(data) < MaxLen
     /\ nreq < MaxReq)
        => ENABLED (Next /\ pending' # <<>> /\ pending'[1] = pending[1]
                         /\ Len(data') = Len(data) + 1)

(* C7: at most one request is outstanding, and an outstanding request is *)
(* newer than the request whose result is the latest report.             *)
C7_SingleInFlight ==
    /\ Len(pending) <= 1
    /\ \A k \in 1..Len(pending) : pending[k].id > ultimo_relatorio.req

(* A request of the event history is outstanding while the result of an  *)
(* earlier request is the latest report.                                 *)
C7_Witness ==
    /\ Len(pending) = 1
    /\ pending[1].origin = "event"
    /\ ultimo_relatorio.req >= 1
    /\ monitoring

(* C8: every request that is answered, by a result or by a failure,      *)
(* leaves a report about that request as the latest report.              *)
C8_FailureBecomesLatest ==
    [][(pending # <<>> /\ (pending' = <<>> \/ pending'[1] # pending[1]))
          => ultimo_relatorio'.req = pending[1].id]_vars

(* C9: a tick whose acquisition fails appends nothing, issues nothing,   *)
(* leaves the report as the script found it and goes on to the next tick.*)
C9_FailedAcquisitionSkipsTick ==
    [][AcquisitionFailed(wifi_info') =>
          /\ data' = data
          /\ nreq' = nreq
          /\ pending' = IF pc = "event_call" THEN Tail(pending) ELSE pending
          /\ ultimo_relatorio' \in
                 {ultimo_relatorio} \cup
                 (IF pc = "event_call" THEN {Relatorio(pending[1])} ELSE {})
          /\ monitoring'
          /\ pc' = "sleep"]_vars

(* A tick found the Signal line missing when the log held five rows. *)
C9_Witness ==
    /\ Len(data) >= 5
    /\ wifi_info # <<>>
    /\ wifi_info[1] # <<>>
    /\ wifi_info[1][1].rssi = <<>>
    /\ pc = "sleep"
    /\ monitoring

(* C10: only the toggle changes the monitoring state, and a step that    *)
(* ends Stopped neither acquires a reading nor appends a row.            *)
C10_StopBeforeNextTick ==
    [][/\ monitoring' # monitoring => Toggle
       /\ ~monitoring' => (wifi_info' = <<>> /\ data' \in {data, <<>>} /\ pc' # "sleep")]_vars

(* Stopped during the wait that followed a tick which appended a row. *)
C10_Witness ==
    /\ ~monitoring
    /\ pc = "idle"
    /\ Len(data) >= 1

(* A step in which a tick of the loop acquired a usable reading. *)
TickSucceeded ==
    pc # "auto_call" /\ wifi_info' # <<>> /\ HasReading(wifi_info'[1])

(* C11: a successful tick adds exactly one row, at the end, holding the  *)
(* reading; no step changes a row already in the log; only the reset     *)
(* removes rows.                                                         *)
C11_AppendOnly ==
    [][/\ TickSucceeded =>
            /\ Len(data') = Len(data) + 1
            /\ data'[Len(data')].rssi = wifi_info'[1][1].rssi[1]
            /\ data'[Len(data')].canal = wifi_info'[1][1].canal
            /\ data'[Len(data')].frequencia = wifi_info'[1][1].frequencia
       /\ \/ data' = data
          \/ Len(data') = Len(data) + 1 /\ SubSeq(data', 1, Len(data)) = data
          \/ data' = <<>> /\ Limpar]_vars

(* A log of seven rows, two of them labeled, after requests were issued. *)
C11_Witness ==
    /\ Len(data) = 7
    /\ data[6].evento # None
    /\ data[7].evento # None
    /\ data[6].evento # data[7].evento
    /\ data[6].canal # data[7].canal
    /\ nreq = 2

(* C12: the reset leaves an empty log and no event, and every row of the *)
(* log carries the category a fresh session gives it from the rows       *)
(* before it in the log.                                                 *)
C12_ResetColdStarts ==
    /\ [][Limpar => (Len(data') = 0 /\ EventIndex(data') = {})]_vars
    /\ [](\A i \in 1..Len(data) :
             /\ data[i].evento = detect_fading(data[i].rssi, SubSeq(data, 1, i - 1))
             /\ i <= 5 => data[i].evento = None)

(* The first request was answered and its report cleared by a reset; six *)
(* rows were appended since and the sixth is labeled.                    *)
C12_Witness ==
    /\ nreq = 2
    /\ pc = "auto_call"
    /\ ultimo_relatorio = NoReport
    /\ Len(data) = 6
    /\ data[6].evento # None

(* C13: a row is Slow Fading only if no step within the last five rssi   *)
(* values, the row's own included, goes upward.                          *)
C13_UpwardStepNeverSlowFading ==
    \A i \in 1..Len(data) :
        data[i].evento = "Slow Fading / Shadowing"
            => (i >= WindowSize /\ NonIncreasing(WindowWith(i)))

C15_ModerateBelowFast ==
    \A i \in 1..Len(data) :
        /\ data[i].evento = "Variacao Moderada"
              => /\ i >= 6
                 /\ Delta(i) >= Dbm(MODERATE_VARIATION_THRESHOLD)
                 /\ Delta(i) < Dbm(FAST_FADING_THRESHOLD)
        /\ (i >= 6 /\ data[i].evento = None)
              => Delta(i) < Dbm(MODERATE_VARIATION_THRESHOLD)

(* A row of delta exactly 6 dBm labeled Variacao Moderada, and an        *)
(* unlabeled row of delta 4 dBm.                                         *)
C15_Witness ==
    \E i, j \in 6..Len(data) :
        /\ data[i].evento = "Variacao Moderada"
        /\ Delta(i) = Dbm(MODERATE_VARIATION_THRESHOLD)
        /\ data[j].evento = None
        /\ Delta(j) > 0

(* C16: the first five rows of every log are unlabeled: the fifth row is *)
(* classified against four.                                              *)
C16_FirstFiveUnlabeled ==
    \A i \in 1..Len(data) : i <= 5 => data[i].evento = None

(* Five rows that never rise and drop 10 dBm, the fifth unlabeled. *)
C16_Witness ==
    /\ Len(data) >= 5
    /\ SlowCondition(WindowWith(5))
    /\ Delta(5) >= Dbm(FAST_FADING_THRESHOLD)
    /\ data[5].evento = None

(* C17: a successful tick whose row is unlabeled issues no request and   *)
(* leaves the report as the script found it; a step of the loop changes  *)
(* the report only for a labeled row: in the tick that appended it or    *)
(* when the request of that tick is answered.                            *)
C17_NoCategoryNoRequest ==
    [][/\ (TickSucceeded /\ data' # <<>> /\ data'[Len(data')].evento = None) =>
            /\ nreq' = nreq
            /\ pending' = IF pc = "event_call" THEN Tail(pending) ELSE pending
            /\ pc' = "sleep"
            /\ ultimo_relatorio' \in
                   {ultimo_relatorio} \cup
                   (IF pc = "event_call" THEN {Relatorio(pending[1])} ELSE {})
       /\ ((Rerun \/ RespondAuto) /\ ultimo_relatorio' # ultimo_relatorio) =>
            /\ data' # <<>>
            /\ data'[Len(data')].evento # None
            /\ pc = "auto_call" \/ Len(data') = Len(data) + 1]_vars

(* An unlabeled seventh row follows a labeled sixth whose report stands. *)
C17_Witness ==
    /\ Len(data) = 7
    /\ data[6].evento # None
    /\ data[7].evento = None
    /\ ultimo_relatorio.req = 1
    /\ ultimo_relatorio.text = "content"
    /\ nreq = 1
    /\ pc = "sleep"

====
